---- MODULE Spec2Model ----
(***************************************************************************)
(* Model of the SocialNest server (src/index.js): an Express application   *)
(* whose handlers read and write three MongoDB collections (users, events, *)
(* joinedEvents).  Every handler is an async function: it runs without     *)
(* interruption from one await to the next, and other requests may run     *)
(* between two of its store operations.  One action of the model is one    *)
(* such turn: the arrival of a request (authenticate plus the handler's    *)
(* code up to its first store operation), or the completion of one store   *)
(* operation plus the handler's code after it.                             *)
(***************************************************************************)
EXTENDS Integers, Sequences, FiniteSets, TLC

VARIABLES now, users, events, joins, req, response, answered

vars == <<now, users, events, joins, req, response, answered>>

(***************************************************************************)
(* Bounds of the model.                                                    *)
(***************************************************************************)
\* Number of event documents ever inserted.
MaxEvents == 2
\* Number of requests a run receives.
MaxRequests == 3
\* Last instant of the clock read by new Date().
MaxTime == 1

\* The requests that may be in flight at the same time.
Slots == {1, 2}

(***************************************************************************)
(* JavaScript values.                                                      *)
(***************************************************************************)
\* undefined: an absent property of a body, a query or a token payload.
Absent == "<undefined>"
\* null.
Null == "<null>"
\* !v for the values of the model (strings, undefined, null).
Falsy(v) == v \in {Absent, Null, ""}
\* a || b
Or(a, b) == IF Falsy(a) THEN b ELSE a
\* The BSON serializer stores an undefined property as null.
Stored(v) == IF v = Absent THEN Null ELSE v

\* Invalid Date.
InvalidDate == -1
\* new Date(s) for the date strings of the model, as instants of the clock.
DateOf(s) ==
  CASE s = "2030-01-01" -> 0
    [] s = "2030-01-02" -> 1
    [] s = "2030-01-03" -> 2
    [] OTHER -> InvalidDate

\* parseInt(limit) || 0: NaN (no digits, undefined) becomes 0.
ParseLimit(s) ==
  CASE s = "1" -> 1
    [] s = "2" -> 2
    [] OTHER -> 0

(***************************************************************************)
(* Credentials.  An Authorization header is its text up to and including   *)
(* the first space (prefix) and the words that follow, split on spaces; a  *)
(* word is its segments, split on dots; a segment is the text its base64   *)
(* decoding gives; a text is either the JSON serialization of a value or   *)
(* not JSON at all.                                                        *)
(***************************************************************************)
NoValue == [isObject |-> FALSE, email |-> Absent, name |-> Absent, picture |-> Absent]
Claims(e, n, p) == [isObject |-> TRUE, email |-> e, name |-> n, picture |-> p]
\* The JSON text of value v.
Json(v) == [isJson |-> TRUE, value |-> v]
\* A text that is not JSON.
Garbage == [isJson |-> FALSE, value |-> NoValue]
\* The base64 encoding of a text; the empty segment.
B64(t) == [empty |-> FALSE, text |-> t]
EmptySeg == [empty |-> TRUE, text |-> Garbage]
Bearer(words) == [prefix |-> "Bearer ", words |-> words]
Token(claims) == <<B64(Garbage), B64(Json(claims)), B64(Garbage)>>

Ann == Claims("ann@x.io", "Ann", "ann.png")
AnnBare == Claims("ann@x.io", Absent, Absent)
Bob == Claims("bob@x.io", "Bob", Absent)

ValidHeaders ==
  { Bearer(<<Token(Ann)>>), Bearer(<<Token(AnnBare)>>), Bearer(<<Token(Bob)>>),
    \* header.payload, no signature segment
    Bearer(<<<<B64(Garbage), B64(Json(Bob))>>>>) }

InvalidHeaders ==
  { [prefix |-> Absent, words |-> <<>>],                \* no Authorization header
    [prefix |-> "Basic ", words |-> <<Token(Ann)>>],    \* other scheme
    [prefix |-> "Bearer", words |-> <<>>],              \* "Bearer", no space
    Bearer(<<<<EmptySeg>>>>),                            \* "Bearer "
    Bearer(<<<<EmptySeg>>, Token(Ann)>>),                \* "Bearer  <token>"
    Bearer(<<<<B64(Garbage)>>>>),                        \* one segment, no payload
    Bearer(<<<<B64(Garbage), EmptySeg, B64(Garbage)>>>>),\* empty payload
    Bearer(<<<<B64(Garbage), B64(Garbage), B64(Garbage)>>>>), \* payload not JSON
    Bearer(<<<<B64(Garbage), B64(Json(NoValue)), B64(Garbage)>>>>), \* payload null
    Bearer(<<Token(Claims(Absent, "Ann", "ann.png"))>>), \* no email
    Bearer(<<Token(Claims("", "Ann", Absent))>>) }       \* empty email

Headers == ValidHeaders \cup InvalidHeaders

NoUser == [email |-> Absent, displayName |-> Absent, photoURL |-> Absent]

\* authenticate without its check of decodedPayload.email.
authenticateAnyPayload(h) ==
  IF h.prefix # "Bearer "
  THEN [ok |-> FALSE, status |-> 401, user |-> NoUser]
  ELSE LET token == h.words[1]
       IN IF token = <<EmptySeg>> \/ Len(token) < 2
          THEN [ok |-> FALSE, status |-> 401, user |-> NoUser]
          ELSE LET payload == token[2]
               IN IF payload.empty \/ ~payload.text.isJson \/ ~payload.text.value.isObject
                  THEN [ok |-> FALSE, status |-> 401, user |-> NoUser]
                  ELSE [ok |-> TRUE, status |-> 200,
                        user |-> [email |-> payload.text.value.email,
                                  displayName |-> Or(payload.text.value.name, "Anonymous"),
                                  photoURL |-> Or(payload.text.value.picture, Null)]]

\* authenticate (the outcome: next() with req.user, or a 401 response).
authenticate(h) ==
  IF h.prefix # "Bearer "
  THEN [ok |-> FALSE, status |-> 401, user |-> NoUser]
  ELSE LET token == h.words[1]
       IN IF token = <<EmptySeg>>
          THEN [ok |-> FALSE, status |-> 401, user |-> NoUser]
          ELSE IF Len(token) < 2
          THEN [ok |-> FALSE, status |-> 401, user |-> NoUser]   \* Buffer.from(undefined) throws
          ELSE LET payload == token[2]
               IN IF payload.empty \/ ~payload.text.isJson
                  THEN [ok |-> FALSE, status |-> 401, user |-> NoUser] \* JSON.parse throws
                  ELSE LET decodedPayload == payload.text.value
                       IN IF ~decodedPayload.isObject
                          THEN [ok |-> FALSE, status |-> 401, user |-> NoUser] \* null.email throws
                          ELSE IF Falsy(decodedPayload.email)
                          THEN [ok |-> FALSE, status |-> 401, user |-> NoUser]
                          ELSE [ok |-> TRUE, status |-> 200,
                                user |-> [email |-> decodedPayload.email,
                                          displayName |-> Or(decodedPayload.name, "Anonymous"),
                                          photoURL |-> Or(decodedPayload.picture, Null)]]

(***************************************************************************)
(* Request inputs.                                                         *)
(***************************************************************************)
\* POST /events and PUT /events/:id bodies.
Body(t, d, y, th, l, dt) ==
  [title |-> t, description |-> d, eventType |-> y, thumbnailImage |-> th,
   location |-> l, eventDate |-> dt]
FullBody == Body("Picnic", "Lunch", "Social", Absent, "Park", "2030-01-02")
EmptyBody == Body(Absent, Absent, Absent, Absent, Absent, Absent)
RequiredFields == {"title", "description", "eventType", "location", "eventDate"}
MutableFields == RequiredFields \cup {"thumbnailImage"}
CreateBodies ==
  {FullBody, [FullBody EXCEPT !.location = ""]}
    \cup {[FullBody EXCEPT ![f] = Absent] : f \in RequiredFields}
UpdateBodies ==
  { [EmptyBody EXCEPT !.title = "Gala"],
    [EmptyBody EXCEPT !.title = "", !.eventDate = "2030-01-01"] }
\* POST /users bodies.
UserBodies ==
  { [displayName |-> Absent, photoURL |-> Absent, preferences |-> Absent],
    [displayName |-> "Zed", photoURL |-> Absent, preferences |-> "quiet"] }
DefaultPreferences == "notifications,emailUpdates"
\* GET /events queries.
Queries ==
  { [type |-> Absent, search |-> Absent, limit |-> Absent],
    [type |-> "Social", search |-> Absent, limit |-> "1"],
    [type |-> Absent, search |-> "PIC", limit |-> Absent] }
Emails == {"ann@x.io", "bob@x.io"}
\* An :id parameter: the hex string of the identifier n, or a string that
\* new ObjectId() rejects (0).
Ids == 0 .. MaxEvents
ValidId(id) == id # 0

(***************************************************************************)
(* The store: three collections.  users maps an email to its document; _id *)
(* of an event is its position in the events collection (insertion order); *)
(* joinedEvents is a sequence, since nothing in the store keeps two equal  *)
(* join records apart.                                                     *)
(***************************************************************************)
\* eventsCollection.findOne({_id}): a sequence with the document, or empty.
FindEvent(id) == IF id \in 1 .. Len(events) THEN <<events[id]>> ELSE <<>>

\* A lookup that forgets the caller: findOne({eventId}).
JoinExistsAnyCaller(js, eventId, email) ==
  \E i \in 1 .. Len(js) : js[i].eventId = eventId

\* joinedEventsCollection.findOne({eventId, userEmail}) is not null.
JoinExists(js, eventId, email) ==
  \E i \in 1 .. Len(js) : js[i].eventId = eventId /\ js[i].userEmail = email

\* A lookup that forgets the event: find({}).
ParticipantsOfAll(js, eventId) ==
  [i \in 1 .. Len(js) |->
     [userEmail |-> js[i].userEmail, userName |-> js[i].userName,
      userPhotoURL |-> js[i].userPhotoURL]]

\* joinedEventsCollection.find({eventId}).project({userEmail, userName, userPhotoURL})
Participants(js, eventId) ==
  LET Match(j) == j.eventId = eventId
      found == SelectSeq(js, Match)
  IN [i \in 1 .. Len(found) |->
        [userEmail |-> found[i].userEmail, userName |-> found[i].userName,
         userPhotoURL |-> found[i].userPhotoURL]]

\* The same with joinedAt projected too (GET /events/:id).
ParticipantsAt(js, eventId) ==
  LET Match(j) == j.eventId = eventId
      found == SelectSeq(js, Match)
  IN [i \in 1 .. Len(found) |->
        [userEmail |-> found[i].userEmail, userName |-> found[i].userName,
         userPhotoURL |-> found[i].userPhotoURL, joinedAt |-> found[i].joinedAt]]

\* .sort({eventDate: 1}) of a set of event documents; equal dates keep the
\* insertion order.
RECURSIVE SortByDate(_)
SortByDate(docs) ==
  IF docs = {} THEN <<>>
  ELSE LET first == CHOOSE d \in docs : \A e \in docs :
                       \/ d.eventDate < e.eventDate
                       \/ d.eventDate = e.eventDate /\ d._id <= e._id
       IN <<first>> \o SortByDate(docs \ {first})

\* The first n documents; limit(0) is no limit.
Limit(s, n) == IF n = 0 \/ n >= Len(s) THEN s ELSE SubSeq(s, 1, n)

\* $regex with $options "i": the pattern occurs in the title, letter case
\* ignored (for the titles and patterns of the model).
Lower(s) ==
  CASE s = "PIC" -> "pic"
    [] s = "Picnic" -> "picnic"
    [] s = "Gala" -> "gala"
    [] OTHER -> s
Occurs(p, s) == p = s \/ <<p, s>> \in {<<"pic", "picnic">>}
RegexI(pattern, title) == Occurs(Lower(pattern), Lower(title))

(***************************************************************************)
(* Requests in flight and responses.                                       *)
(***************************************************************************)
Idle == [pc |-> "idle"]
NoResponse == [slot |-> 0, route |-> "none", status |-> 0, of |-> Idle, body |-> <<>>]

\* The event inserts that requests in flight may still perform.
PendingEvents == Cardinality({s \in Slots : req[s].pc = "create_insertOne"})
\* The requests in flight.
InFlight == Cardinality({s \in Slots : req[s].pc # "idle"})

\* A request arrives: it takes the lowest free slot.
Free(s) ==
  /\ answered + InFlight < MaxRequests
  /\ req[s].pc = "idle"
  /\ \A o \in Slots : o < s => req[o].pc # "idle"

\* A turn that sends no response.
Silent == response' = NoResponse /\ UNCHANGED answered

\* res.status(st).json(body), sent by the request `of` (its identity, its
\* parameters and its local variables): the slot is free again.
Respond(s, route, st, of, body) ==
  /\ req' = [req EXCEPT ![s] = Idle]
  /\ response' = [slot |-> s, route |-> route, status |-> st, of |-> of, body |-> body]
  /\ answered' = answered + 1

\* A request as it arrives: its credential and the identity authenticate gave.
Arrived(pc, h, user) == [pc |-> pc, header |-> h, user |-> user]

\* authenticate answered 401: the handler is not called.
Reject(s, route, h) ==
  /\ response' = [slot |-> s, route |-> route, status |-> 401,
                  of |-> Arrived("authenticate", h, NoUser), body |-> <<>>]
  /\ answered' = answered + 1
  /\ UNCHANGED <<now, users, events, joins, req>>

Init ==
  /\ now = 0
  /\ users = [e \in {} |-> Idle]
  /\ events = <<>>
  /\ joins = <<>>
  /\ req = [s \in Slots |-> Idle]
  /\ response = NoResponse
  /\ answered = 0

\* Time passes between two turns.
Tick ==
  /\ now < MaxTime
  /\ now' = now + 1
  /\ Silent
  /\ UNCHANGED <<users, events, joins, req>>

(***************************************************************************)
(* POST /users                                                             *)
(***************************************************************************)
PostUsers(s, H) ==
  /\ Free(s)
  /\ \E h \in H, body \in UserBodies :
       LET a == authenticate(h)
       IN IF ~a.ok THEN Reject(s, "POST /users", h)
          ELSE /\ req' = [req EXCEPT ![s] =
                    [pc |-> "users_updateOne", header |-> h, user |-> a.user,
                     updateData |->
                       [email |-> a.user.email,
                        displayName |-> Or(body.displayName, a.user.displayName),
                        photoURL |-> Or(body.photoURL, a.user.photoURL),
                        preferences |-> Or(body.preferences, DefaultPreferences),
                        updatedAt |-> now]]]
               /\ Silent
               /\ UNCHANGED <<now, users, events, joins>>

\* usersCollection.updateOne({email}, {$set: updateData}, {upsert: true})
PostUsersUpdateOne(s) ==
  /\ req[s].pc = "users_updateOne"
  /\ users' = [e \in DOMAIN users \cup {req[s].user.email} |->
                 IF e = req[s].user.email THEN req[s].updateData ELSE users[e]]
  /\ req' = [req EXCEPT ![s] =
               [pc |-> "users_findOne", header |-> req[s].header, user |-> req[s].user]]
  /\ Silent
  /\ UNCHANGED <<now, events, joins>>

\* usersCollection.findOne({email}); res.json(updatedUser)
PostUsersFindOne(s) ==
  /\ req[s].pc = "users_findOne"
  /\ Respond(s, "POST /users", 200, req[s], <<users[req[s].user.email]>>)
  /\ UNCHANGED <<now, users, events, joins>>

(***************************************************************************)
(* GET /users/:email                                                       *)
(***************************************************************************)
GetUser(s, H) ==
  /\ Free(s)
  /\ \E h \in H, email \in Emails :
       LET a == authenticate(h)
       IN IF ~a.ok THEN Reject(s, "GET /users/:email", h)
          ELSE IF email # a.user.email
          THEN Respond(s, "GET /users/:email", 403, Arrived("user", h, a.user), <<>>) /\ UNCHANGED <<now, users, events, joins>>
          ELSE /\ req' = [req EXCEPT ![s] =
                    [pc |-> "user_findOne", header |-> h, user |-> a.user, email |-> email]]
               /\ Silent
               /\ UNCHANGED <<now, users, events, joins>>

GetUserFindOne(s) ==
  /\ req[s].pc = "user_findOne"
  /\ IF req[s].email \in DOMAIN users
     THEN Respond(s, "GET /users/:email", 200, req[s], <<users[req[s].email]>>)
     ELSE Respond(s, "GET /users/:email", 404, req[s], <<>>)
  /\ UNCHANGED <<now, users, events, joins>>

(***************************************************************************)
(* Event composition (GET /events, GET /manage/events): one participant    *)
(* lookup per listed event, all issued at once and answered in any order.  *)
(***************************************************************************)
\* The list is read: issue the lookups, or answer at once when it is empty.
StartEnrich(s, route, found) ==
  IF found = <<>>
  THEN Respond(s, route, 200, req[s], <<>>)
  ELSE /\ req' = [req EXCEPT ![s] =
                    [pc |-> "enrich", route |-> route, header |-> req[s].header,
                     user |-> req[s].user, list |-> found,
                     todo |-> 1 .. Len(found),
                     parts |-> [i \in 1 .. Len(found) |-> <<>>]]]
       /\ Silent

\* One element of the response: {...event, participants, participantsCount}.
Enriched(event, participants) ==
  [event |-> event, participants |-> participants, hasCount |-> TRUE,
   participantsCount |-> Len(participants)]

\* joinedEventsCollection.find({eventId: event._id}) of one listed event;
\* the last lookup resolves Promise.all and the response is sent.
EnrichLookup(s) ==
  /\ req[s].pc = "enrich"
  /\ \E i \in req[s].todo :
       LET parts == [req[s].parts EXCEPT ![i] = Participants(joins, req[s].list[i]._id)]
       IN IF req[s].todo = {i}
          THEN Respond(s, req[s].route, 200, req[s],
                  [k \in 1 .. Len(parts) |-> Enriched(req[s].list[k], parts[k])])
          ELSE /\ req' = [req EXCEPT ![s].todo = @ \ {i}, ![s].parts = parts]
               /\ Silent
  /\ UNCHANGED <<now, users, events, joins>>

(***************************************************************************)
(* GET /events                                                             *)
(***************************************************************************)
\* The documents the query of GET /events selects.
Upcoming(q, t) ==
  { events[i] : i \in { k \in 1 .. Len(events) :
       /\ events[k].eventDate >= t
       /\ Falsy(q.type) \/ events[k].eventType = q.type
       /\ Falsy(q.search) \/ RegexI(q.search, events[k].title) } }

GetEvents(s) ==
  /\ Free(s)
  /\ \E q \in Queries :
       req' = [req EXCEPT ![s] =
                 [pc |-> "events_find", header |-> Absent, user |-> NoUser,
                  query |-> q, date |-> now]]
  /\ Silent
  /\ UNCHANGED <<now, users, events, joins>>

\* eventsCollection.find(query).limit(n).sort({eventDate: 1}).toArray()
GetEventsFind(s) ==
  /\ req[s].pc = "events_find"
  /\ StartEnrich(s, "GET /events",
        Limit(SortByDate(Upcoming(req[s].query, req[s].date)), ParseLimit(req[s].query.limit)))
  /\ UNCHANGED <<now, users, events, joins>>

(***************************************************************************)
(* GET /manage/events                                                      *)
(***************************************************************************)
GetManageEvents(s, H) ==
  /\ Free(s)
  /\ \E h \in H :
       LET a == authenticate(h)
       IN IF ~a.ok THEN Reject(s, "GET /manage/events", h)
          ELSE /\ req' = [req EXCEPT ![s] =
                            [pc |-> "manage_find", header |-> h, user |-> a.user]]
               /\ Silent
               /\ UNCHANGED <<now, users, events, joins>>

\* eventsCollection.find({userEmail}).sort({eventDate: 1}).toArray()
GetManageEventsFind(s) ==
  /\ req[s].pc = "manage_find"
  /\ StartEnrich(s, "GET /manage/events",
        SortByDate({ events[i] : i \in { k \in 1 .. Len(events) :
                        events[k].userEmail = req[s].user.email } }))
  /\ UNCHANGED <<now, users, events, joins>>

(***************************************************************************)
(* GET /events/:id                                                         *)
(***************************************************************************)
GetEvent(s) ==
  /\ Free(s)
  /\ \E id \in Ids :
       IF ~ValidId(id)
       THEN Respond(s, "GET /events/:id", 500, Arrived("event", Absent, NoUser), <<>>) \* new ObjectId throws
       ELSE /\ req' = [req EXCEPT ![s] =
                         [pc |-> "event_findOne", header |-> Absent, user |-> NoUser, id |-> id]]
            /\ Silent
  /\ UNCHANGED <<now, users, events, joins>>

GetEventFindOne(s) ==
  /\ req[s].pc = "event_findOne"
  /\ LET found == FindEvent(req[s].id)
     IN IF found = <<>>
        THEN Respond(s, "GET /events/:id", 404, req[s], <<>>)
        ELSE /\ req' = [req EXCEPT ![s] =
                          [pc |-> "event_participants", header |-> Absent, user |-> NoUser,
                           id |-> req[s].id, event |-> found[1]]]
             /\ Silent
  /\ UNCHANGED <<now, users, events, joins>>

\* event.participants = participants; res.json(event)
GetEventParticipants(s) ==
  /\ req[s].pc = "event_participants"
  /\ Respond(s, "GET /events/:id", 200, req[s],
        <<[event |-> req[s].event, participants |-> ParticipantsAt(joins, req[s].id),
           hasCount |-> FALSE, participantsCount |-> 0]>>)
  /\ UNCHANGED <<now, users, events, joins>>

\* A validation that forgets location.
MissingRequiredButLocation(body) ==
  \/ Falsy(body.title)
  \/ Falsy(body.description)
  \/ Falsy(body.eventType)
  \/ Falsy(body.eventDate)

(***************************************************************************)
(* POST /events                                                            *)
(***************************************************************************)
\* !title || !description || !eventType || !location || !eventDate
MissingRequired(body) ==
  \/ Falsy(body.title)
  \/ Falsy(body.description)
  \/ Falsy(body.eventType)
  \/ Falsy(body.location)
  \/ Falsy(body.eventDate)

\* The event document built from the body and the caller's identity.
NewEvent(body, user, t) ==
  [title |-> body.title, description |-> body.description,
   eventType |-> body.eventType, thumbnailImage |-> body.thumbnailImage,
   location |-> body.location, eventDate |-> DateOf(body.eventDate),
   userEmail |-> user.email, userName |-> user.displayName,
   userPhotoURL |-> user.photoURL, createdAt |-> t, updatedAt |-> t]

\* The document as the store keeps it, under the identifier it generated.
Inserted(event, id) ==
  [_id |-> id, title |-> event.title, description |-> event.description,
   eventType |-> event.eventType, thumbnailImage |-> Stored(event.thumbnailImage),
   location |-> event.location, eventDate |-> event.eventDate,
   userEmail |-> event.userEmail, userName |-> event.userName,
   userPhotoURL |-> event.userPhotoURL, createdAt |-> event.createdAt,
   updatedAt |-> event.updatedAt]

\* joinData
JoinData(eventId, user, t) ==
  [eventId |-> eventId, userEmail |-> user.email, userName |-> user.displayName,
   userPhotoURL |-> user.photoURL, joinedAt |-> t]

PostEvents(s, H) ==
  /\ Free(s)
  /\ \E h \in H, body \in CreateBodies :
       LET a == authenticate(h)
       IN IF ~a.ok THEN Reject(s, "POST /events", h)
          ELSE IF MissingRequired(body)
          THEN /\ Respond(s, "POST /events", 400,
                     [pc |-> "create", header |-> h, user |-> a.user, input |-> body], <<>>)
               /\ UNCHANGED <<now, users, events, joins>>
          ELSE /\ Len(events) + PendingEvents < MaxEvents
               /\ req' = [req EXCEPT ![s] =
                            [pc |-> "create_insertOne", header |-> h, user |-> a.user,
                             input |-> body, event |-> NewEvent(body, a.user, now)]]
               /\ Silent
               /\ UNCHANGED <<now, users, events, joins>>

\* eventsCollection.insertOne(event)
PostEventsInsertOne(s) ==
  /\ req[s].pc = "create_insertOne"
  /\ events' = Append(events, Inserted(req[s].event, Len(events) + 1))
  /\ req' = [req EXCEPT ![s] =
               [pc |-> "create_findOne", header |-> req[s].header, user |-> req[s].user,
                insertedId |-> Len(events) + 1]]
  /\ Silent
  /\ UNCHANGED <<now, users, joins>>

\* eventsCollection.findOne({_id: result.insertedId}), then joinData is built
PostEventsFindOne(s) ==
  /\ req[s].pc = "create_findOne"
  /\ LET insertedEvent == events[req[s].insertedId]
     IN req' = [req EXCEPT ![s] =
                  [pc |-> "create_join", header |-> req[s].header, user |-> req[s].user,
                   insertedEvent |-> insertedEvent,
                   joinData |-> JoinData(insertedEvent._id, req[s].user, now)]]
  /\ Silent
  /\ UNCHANGED <<now, users, events, joins>>

\* joinedEventsCollection.insertOne(joinData); res.status(201).json(insertedEvent)
PostEventsJoin(s) ==
  /\ req[s].pc = "create_join"
  /\ joins' = Append(joins, req[s].joinData)
  /\ Respond(s, "POST /events", 201, req[s], <<req[s].insertedEvent>>)
  /\ UNCHANGED <<now, users, events>>

\* No ownership check.
IsOwnerAlways(event, user) == TRUE

(***************************************************************************)
(* PUT /events/:id                                                         *)
(***************************************************************************)
\* event.userEmail !== req.user.email is false
IsOwner(event, user) == event.userEmail = user.email

\* updateData
UpdateData(body, event, t) ==
  [title |-> Or(body.title, event.title),
   description |-> Or(body.description, event.description),
   eventType |-> Or(body.eventType, event.eventType),
   thumbnailImage |-> Or(body.thumbnailImage, event.thumbnailImage),
   location |-> Or(body.location, event.location),
   eventDate |-> IF Falsy(body.eventDate) THEN event.eventDate ELSE DateOf(body.eventDate),
   updatedAt |-> t]

\* An update without $set: the document is replaced by updateData.
SetFieldsReplace(event, updateData) ==
  [f \in DOMAIN event |->
     IF f \in DOMAIN updateData THEN updateData[f]
     ELSE IF f = "_id" THEN event[f] ELSE Null]

\* {$set: updateData} applied to a stored event
SetFields(event, updateData) ==
  [f \in DOMAIN event |-> IF f \in DOMAIN updateData THEN updateData[f] ELSE event[f]]

PutEvent(s, H) ==
  /\ Free(s)
  /\ \E h \in H, id \in Ids, body \in UpdateBodies :
       LET a == authenticate(h)
       IN IF ~a.ok THEN Reject(s, "PUT /events/:id", h)
          ELSE IF ~ValidId(id)
          THEN /\ Respond(s, "PUT /events/:id", 500,
                     [pc |-> "update", header |-> h, user |-> a.user, id |-> id, input |-> body],
                     <<>>)                              \* new ObjectId throws
               /\ UNCHANGED <<now, users, events, joins>>
          ELSE /\ req' = [req EXCEPT ![s] =
                            [pc |-> "update_findOne", header |-> h, user |-> a.user,
                             id |-> id, input |-> body]]
               /\ Silent
               /\ UNCHANGED <<now, users, events, joins>>

\* eventsCollection.findOne({_id}), the ownership check, then updateData is built
PutEventFindOne(s) ==
  /\ req[s].pc = "update_findOne"
  /\ LET found == FindEvent(req[s].id)
     IN IF found = <<>>
        THEN Respond(s, "PUT /events/:id", 404, req[s], <<>>)
        ELSE IF ~IsOwner(found[1], req[s].user)
        THEN Respond(s, "PUT /events/:id", 403, req[s], <<>>)
        ELSE /\ req' = [req EXCEPT ![s] =
                          [pc |-> "update_findOneAndUpdate", header |-> req[s].header,
                           user |-> req[s].user, id |-> req[s].id, input |-> req[s].input,
                           updateData |-> UpdateData(req[s].input, found[1], now)]]
             /\ Silent
  /\ UNCHANGED <<now, users, events, joins>>

\* eventsCollection.findOneAndUpdate({_id}, {$set: updateData})
PutEventFindOneAndUpdate(s) ==
  /\ req[s].pc = "update_findOneAndUpdate"
  /\ events' = [events EXCEPT ![req[s].id] = SetFields(@, req[s].updateData)]
  /\ Respond(s, "PUT /events/:id", 200, req[s], <<>>)
  /\ UNCHANGED <<now, users, joins>>

(***************************************************************************)
(* POST /events/:id/join                                                   *)
(***************************************************************************)
JoinEvent(s, H) ==
  /\ Free(s)
  /\ \E h \in H, id \in Ids :
       LET a == authenticate(h)
       IN IF ~a.ok THEN Reject(s, "POST /events/:id/join", h)
          ELSE IF ~ValidId(id)
          THEN /\ Respond(s, "POST /events/:id/join", 500,
                     [pc |-> "join", header |-> h, user |-> a.user, id |-> id], <<>>)
               /\ UNCHANGED <<now, users, events, joins>>
          ELSE /\ req' = [req EXCEPT ![s] =
                            [pc |-> "join_findEvent", header |-> h, user |-> a.user, id |-> id]]
               /\ Silent
               /\ UNCHANGED <<now, users, events, joins>>

\* eventsCollection.findOne({_id})
JoinEventFindEvent(s) ==
  /\ req[s].pc = "join_findEvent"
  /\ IF FindEvent(req[s].id) = <<>>
     THEN Respond(s, "POST /events/:id/join", 404, req[s], <<>>)
     ELSE /\ req' = [req EXCEPT ![s].pc = "join_findJoin"]
          /\ Silent
  /\ UNCHANGED <<now, users, events, joins>>

\* joinedEventsCollection.findOne({eventId, userEmail}), then joinData is built
JoinEventFindJoin(s) ==
  /\ req[s].pc = "join_findJoin"
  /\ IF JoinExists(joins, req[s].id, req[s].user.email)
     THEN Respond(s, "POST /events/:id/join", 406, req[s], <<>>)
     ELSE /\ req' = [req EXCEPT ![s] =
                       [pc |-> "join_insertOne", header |-> req[s].header,
                        user |-> req[s].user, id |-> req[s].id,
                        joinData |-> JoinData(req[s].id, req[s].user, now)]]
          /\ Silent
  /\ UNCHANGED <<now, users, events, joins>>

\* joinedEventsCollection.insertOne(joinData)
JoinEventInsertOne(s) ==
  /\ req[s].pc = "join_insertOne"
  /\ joins' = Append(joins, req[s].joinData)
  /\ Respond(s, "POST /events/:id/join", 201, req[s], <<>>)
  /\ UNCHANGED <<now, users, events>>

(***************************************************************************)
(* GET /joined/events                                                      *)
(***************************************************************************)
GetJoinedEvents(s, H) ==
  /\ Free(s)
  /\ \E h \in H :
       LET a == authenticate(h)
       IN IF ~a.ok THEN Reject(s, "GET /joined/events", h)
          ELSE /\ req' = [req EXCEPT ![s] =
                            [pc |-> "joined_findJoins", header |-> h, user |-> a.user]]
               /\ Silent
               /\ UNCHANGED <<now, users, events, joins>>

\* joinedEventsCollection.find({userEmail}); eventIds
GetJoinedEventsFindJoins(s) ==
  /\ req[s].pc = "joined_findJoins"
  /\ req' = [req EXCEPT ![s] =
               [pc |-> "joined_findEvents", header |-> req[s].header, user |-> req[s].user,
                eventIds |-> { joins[i].eventId : i \in { k \in 1 .. Len(joins) :
                                  joins[k].userEmail = req[s].user.email } }]]
  /\ Silent
  /\ UNCHANGED <<now, users, events, joins>>

\* eventsCollection.find({_id: {$in: eventIds}}).sort({eventDate: 1})
GetJoinedEventsFindEvents(s) ==
  /\ req[s].pc = "joined_findEvents"
  /\ Respond(s, "GET /joined/events", 200, req[s],
        SortByDate({ events[i] : i \in req[s].eventIds \cap (1 .. Len(events)) }))
  /\ UNCHANGED <<now, users, events, joins>>

(***************************************************************************)
(* The store fails: the operation a request waits for throws, and the      *)
(* handler's catch block answers (400 in POST /events, 500 elsewhere).     *)
(***************************************************************************)
RouteOf(r) ==
  CASE r.pc \in {"users_updateOne", "users_findOne"} -> "POST /users"
    [] r.pc = "user_findOne" -> "GET /users/:email"
    [] r.pc = "events_find" -> "GET /events"
    [] r.pc = "manage_find" -> "GET /manage/events"
    [] r.pc = "enrich" -> r.route
    [] r.pc \in {"event_findOne", "event_participants"} -> "GET /events/:id"
    [] r.pc \in {"create_insertOne", "create_findOne", "create_join"} -> "POST /events"
    [] r.pc \in {"update_findOne", "update_findOneAndUpdate"} -> "PUT /events/:id"
    [] r.pc \in {"join_findEvent", "join_findJoin", "join_insertOne"} -> "POST /events/:id/join"
    [] OTHER -> "GET /joined/events"

\* Every catch block answering 500.
CatchStatusAlways500(route) == 500

CatchStatus(route) == IF route = "POST /events" THEN 400 ELSE 500

StoreFault(s) ==
  /\ req[s].pc # "idle"
  /\ Respond(s, RouteOf(req[s]), CatchStatus(RouteOf(req[s])), req[s], <<>>)
  /\ UNCHANGED <<now, users, events, joins>>

(***************************************************************************)
(* Specifications.                                                         *)
(***************************************************************************)
\* One turn of a request of each group of routes, its credential drawn from H.
Profile(s, H) ==
  \/ PostUsers(s, H) \/ PostUsersUpdateOne(s) \/ PostUsersFindOne(s)
  \/ GetUser(s, H) \/ GetUserFindOne(s)
Create(s, H) ==
  \/ PostEvents(s, H) \/ PostEventsInsertOne(s) \/ PostEventsFindOne(s) \/ PostEventsJoin(s)
Update(s, H) ==
  \/ PutEvent(s, H) \/ PutEventFindOne(s) \/ PutEventFindOneAndUpdate(s)
Join(s, H) ==
  \/ JoinEvent(s, H) \/ JoinEventFindEvent(s) \/ JoinEventFindJoin(s) \/ JoinEventInsertOne(s)
Browse(s, H) ==
  \/ GetEvents(s) \/ GetEventsFind(s)
  \/ GetManageEvents(s, H) \/ GetManageEventsFind(s)
  \/ EnrichLookup(s)
  \/ GetEvent(s) \/ GetEventFindOne(s) \/ GetEventParticipants(s)
  \/ GetJoinedEvents(s, H) \/ GetJoinedEventsFindJoins(s) \/ GetJoinedEventsFindEvents(s)
Turn(s, H) ==
  Profile(s, H) \/ Create(s, H) \/ Update(s, H) \/ Join(s, H) \/ Browse(s, H)

\* The credentials of the interleaved specifications: two callers, one of
\* them under two tokens that name her differently, and no credential.
NoHeader == [prefix |-> Absent, words |-> <<>>]
TwoCallers == {Bearer(<<Token(Ann)>>), Bearer(<<Token(Bob)>>), NoHeader}
SomeHeaders == TwoCallers \cup {Bearer(<<Token(AnnBare)>>)}

\* Every route, requests interleaving at every store operation.
Next == Tick \/ \E s \in Slots : Turn(s, SomeHeaders)
Spec == Init /\ [][Next]_vars

\* The routes that write join records.
NextJoin == Tick \/ \E s \in Slots : (Create(s, TwoCallers) \/ Join(s, TwoCallers))
SpecJoin == Init /\ [][NextJoin]_vars

\* The same, the requests running one after another.
NextJoinSeq ==
  \/ Tick
  \/ \E s \in Slots :
       /\ \A o \in Slots \ {s} : req[o].pc = "idle"
       /\ Create(s, TwoCallers) \/ Join(s, TwoCallers)
SpecJoinSeq == Init /\ [][NextJoinSeq]_vars

\* The routes that write events.
NextUpdate == Tick \/ \E s \in Slots : (Create(s, TwoCallers) \/ Update(s, TwoCallers))
SpecUpdate == Init /\ [][NextUpdate]_vars

\* The routes that write any collection.
NextWrite ==
  \/ Tick
  \/ \E s \in Slots :
       \/ Profile(s, SomeHeaders) \/ Create(s, SomeHeaders)
       \/ Update(s, SomeHeaders) \/ Join(s, SomeHeaders)
SpecWrite == Init /\ [][NextWrite]_vars

\* The routes that read events with their participants, and those that
\* write what they read.
NextBrowse ==
  \/ Tick
  \/ \E s \in Slots :
       Create(s, TwoCallers) \/ Join(s, TwoCallers) \/ Browse(s, TwoCallers)
SpecBrowse == Init /\ [][NextBrowse]_vars

\* Every route and every credential of the model, the requests running one
\* after another.
NextSeq ==
  \/ Tick
  \/ \E s \in Slots : (\A o \in Slots \ {s} : req[o].pc = "idle") /\ Turn(s, Headers)
SpecSeq == Init /\ [][NextSeq]_vars

\* The routes that write events and join records, any store operation of
\* which may fail.
NextFault ==
  \/ Tick
  \/ \E s \in Slots : Create(s, TwoCallers) \/ Join(s, TwoCallers) \/ StoreFault(s)
SpecFault == Init /\ [][NextFault]_vars

(***************************************************************************)
(* Properties.                                                             *)
(***************************************************************************)
JoinRoute == "POST /events/:id/join"
PutRoute == "PUT /events/:id"
ProtectedRoutes ==
  {"POST /users", "GET /users/:email", "POST /events", PutRoute, JoinRoute,
   "GET /joined/events", "GET /manage/events"}

\* The join records of caller u for event e.
JoinCount(e, u) ==
  Cardinality({i \in 1 .. Len(joins) : joins[i].eventId = e /\ joins[i].userEmail = u})

\* The request in slot s takes a turn.
Moves(s) == req'[s] # req[s]

\* C1: the joinedEvents collection never holds two records for the same
\* (eventId, userEmail) pair, whatever the interleaving of POST /events and
\* POST /events/:id/join requests.
C1_OneJoinPerPair ==
  \A i, j \in 1 .. Len(joins) :
    (joins[i].eventId = joins[j].eventId /\ joins[i].userEmail = joins[j].userEmail)
      => i = j

\* C2: when requests run one after another, a join of an existing event by
\* a caller who has no join record for it answers 201 and adds exactly one
\* record (event, caller); a join by a caller who has one answers 406 and
\* leaves the collection as it is; and no record is ever removed, so every
\* join after the first answers 406.
C2_JoinOnce ==
  [][ /\ \A i \in 1 .. Len(joins) : i <= Len(joins') /\ joins'[i] = joins[i]
      /\ ( /\ response'.route = JoinRoute
           /\ response'.status # 401
           /\ FindEvent(response'.of.id) # <<>> )
         => LET r == response'.of
            IN IF JoinCount(r.id, r.user.email) = 0
               THEN /\ response'.status = 201
                    /\ Len(joins') = Len(joins) + 1
                    /\ joins'[Len(joins')].eventId = r.id
                    /\ joins'[Len(joins')].userEmail = r.user.email
               ELSE /\ response'.status = 406
                    /\ joins' = joins ]_vars

\* A second join by a caller who is not the owner was answered 406, and the
\* caller has one record.
C2_Witness ==
  /\ response.route = JoinRoute
  /\ response.status = 406
  /\ events[response.of.id].userEmail # response.of.user.email
  /\ JoinCount(response.of.id, response.of.user.email) = 1

\* C3: every turn of a PUT /events/:id request on an existing event whose
\* userEmail is not the caller's email is the 403 response, and it leaves
\* events (updatedAt included), joinedEvents and users as they are; so does
\* the arrival of the request.
C3_NonOwnerPut ==
  [][ \A s \in Slots :
        /\ ( /\ req[s].pc \in {"update_findOne", "update_findOneAndUpdate"}
             /\ req[s].id \in 1 .. Len(events)
             /\ events[req[s].id].userEmail # req[s].user.email
             /\ Moves(s) )
           => /\ response'.slot = s
              /\ response'.route = PutRoute
              /\ response'.status = 403
              /\ UNCHANGED <<events, joins, users>>
        /\ (req[s].pc = "idle" /\ req'[s].pc = "update_findOne")
           => UNCHANGED <<events, joins, users>> ]_vars

\* A PUT on an existing event of another caller was answered 403.
C3_Witness ==
  /\ response.route = PutRoute
  /\ response.status = 403
  /\ response.of.id \in 1 .. Len(events)
  /\ events[response.of.id].userEmail # response.of.user.email

\* The owner fields of an event document.
Owner(e) == <<e.userEmail, e.userName, e.userPhotoURL>>

\* C4: no turn of any request changes the owner fields of a stored event,
\* and the owner fields of an event that is inserted are the identity that
\* authenticate gave the request that inserts it.
C4_OwnerFieldsKept ==
  [][ /\ Len(events') >= Len(events)
      /\ \A e \in 1 .. Len(events') :
           IF e <= Len(events)
           THEN Owner(events'[e]) = Owner(events[e])
           ELSE \E s \in Slots :
                  /\ req[s].pc = "create_insertOne"
                  /\ Moves(s)
                  /\ Owner(events'[e]) =
                       <<req[s].user.email, req[s].user.displayName, req[s].user.photoURL>>
    ]_vars

\* The owner, under a token that names her differently, has updated her
\* event: the title is the new one and the owner fields are those of the
\* creation.
C4_Witness ==
  /\ response.route = PutRoute
  /\ response.status = 200
  /\ response.of.user.displayName = "Anonymous"
  /\ events[response.of.id].title = "Gala"
  /\ Owner(events[response.of.id]) = <<"ann@x.io", "Ann", "ann.png">>

\* C5: a POST /events request whose body lacks one of title, description,
\* eventType, location, eventDate (absent or falsy) never reaches the insert
\* of the event; the response sent on arrival is 400, for such a body only,
\* and it leaves events and joinedEvents as they are.
C5_MissingField ==
  [][ /\ \A s \in Slots :
           req'[s].pc = "create_insertOne"
             => \A f \in RequiredFields : req'[s].input[f] \notin {Absent, Null, ""}
      /\ (response'.route = "POST /events" /\ response'.of.pc = "create")
           => /\ response'.status = 400
              /\ \E f \in RequiredFields : response'.of.input[f] \in {Absent, Null, ""}
              /\ UNCHANGED <<events, joins>> ]_vars

\* A body without one required field was answered 400 while the store held
\* an event.
C5_Witness ==
  /\ response.route = "POST /events"
  /\ response.status = 400
  /\ response.of.pc = "create"
  /\ Len(events) > 0

\* The entries of a join record that the list routes and the detail route
\* project.
Projected(j) ==
  [userEmail |-> j.userEmail, userName |-> j.userName, userPhotoURL |-> j.userPhotoURL]
ProjectedAt(j) ==
  [userEmail |-> j.userEmail, userName |-> j.userName, userPhotoURL |-> j.userPhotoURL,
   joinedAt |-> j.joinedAt]

\* got holds one entry per stored join record of event e, and nothing else.
ExactlyJoinsOf(got, e, P(_)) ==
  LET mine == {n \in 1 .. Len(joins) : joins[n].eventId = e}
  IN /\ Len(got) = Cardinality(mine)
     /\ \A n \in mine :
          Cardinality({k \in 1 .. Len(got) : got[k] = P(joins[n])})
            = Cardinality({m \in mine : P(joins[m]) = P(joins[n])})

ReadRoutes == {"GET /events", "GET /events/:id", "GET /manage/events"}

\* C6 as stated: every event object that GET /events, GET /events/:id and
\* GET /manage/events return carries a participantsCount equal to the length
\* of its participants.
C6_CountEverywhere ==
  (response.route \in ReadRoutes /\ response.status = 200)
    => \A k \in 1 .. Len(response.body) :
         /\ response.body[k].hasCount
         /\ response.body[k].participantsCount = Len(response.body[k].participants)

\* C6 as amended: each participant lookup of GET /events and of
\* GET /manage/events returns exactly one entry per join record of its event
\* as stored at the lookup, and nothing else; the response carries, for
\* every listed event, what its lookup returned and a participantsCount
\* equal to its length.  GET /events/:id returns the event with exactly one
\* entry per join record of the event, and no participantsCount.
C6_Participants ==
  [][ \A s \in Slots :
        /\ (req[s].pc = "enrich" /\ Moves(s))
           => \E i \in req[s].todo :
                IF req'[s].pc = "enrich"
                THEN /\ req'[s].todo = req[s].todo \ {i}
                     /\ ExactlyJoinsOf(req'[s].parts[i], req[s].list[i]._id, Projected)
                     /\ \A k \in (1 .. Len(req[s].list)) \ {i} :
                          req'[s].parts[k] = req[s].parts[k]
                ELSE /\ req[s].todo = {i}
                     /\ response'.slot = s
                     /\ response'.status = 200
                     /\ Len(response'.body) = Len(req[s].list)
                     /\ \A k \in 1 .. Len(req[s].list) :
                          /\ response'.body[k].event = req[s].list[k]
                          /\ response'.body[k].hasCount
                          /\ response'.body[k].participantsCount
                               = Len(response'.body[k].participants)
                          /\ IF k = i
                             THEN ExactlyJoinsOf(response'.body[k].participants,
                                                 req[s].list[k]._id, Projected)
                             ELSE response'.body[k].participants = req[s].parts[k]
        /\ (req[s].pc = "event_participants" /\ Moves(s))
           => /\ response'.slot = s
              /\ response'.status = 200
              /\ Len(response'.body) = 1
              /\ response'.body[1].event._id = req[s].id
              /\ ~response'.body[1].hasCount
              /\ ExactlyJoinsOf(response'.body[1].participants, req[s].id, ProjectedAt)
    ]_vars

\* GET /events returned two events, each with its own participant.
C6_Witness ==
  /\ response.route = "GET /events"
  /\ response.status = 200
  /\ Len(response.body) = 2
  /\ \A k \in 1 .. 2 : response.body[k].participantsCount = 1
  /\ Len(joins) = 2

\* C7: whenever POST /events answers 201 with the event it created, the
\* store holds that event and exactly one join record (event, creator).
C7_CreatedWithOneJoin ==
  (response.route = "POST /events" /\ response.status = 201)
    => /\ response.body[1]._id \in 1 .. Len(events)
       /\ JoinCount(response.body[1]._id, response.body[1].userEmail) = 1

\* The credential is a Bearer header whose token has a payload segment that
\* is the base64 encoding of the JSON text of an object with an email.
WellFormed(h) ==
  /\ h.prefix = "Bearer "
  /\ Len(h.words) >= 1
  /\ Len(h.words[1]) >= 2
  /\ ~h.words[1][2].empty
  /\ h.words[1][2].text.isJson
  /\ h.words[1][2].text.value.isObject
  /\ h.words[1][2].text.value.email \notin {Absent, Null, ""}

\* The responses a handler sends in the turn the request arrives.
ArrivalPcs == {"user", "create", "update", "join"}

\* C8: on every protected route, a 401 response is the answer to a
\* credential that is not well formed, it is sent without the handler
\* taking the request (no slot changes) and leaves users, events and
\* joinedEvents as they are; every request a handler takes or answers has a
\* well-formed credential, and its identity email is the email of the
\* credential's payload.
C8_Authenticate ==
  [][ /\ response'.status = 401
        => /\ response'.route \in ProtectedRoutes
           /\ ~WellFormed(response'.of.header)
           /\ UNCHANGED <<users, events, joins, req>>
      /\ \A s \in Slots :
           (req'[s].pc # "idle" /\ RouteOf(req'[s]) \in ProtectedRoutes)
             => /\ WellFormed(req'[s].header)
                /\ req'[s].user.email = req'[s].header.words[1][2].text.value.email
      /\ ( /\ response'.route \in ProtectedRoutes
           /\ response'.status # 401
           /\ response'.of.pc \in ArrivalPcs )
        => /\ WellFormed(response'.of.header)
           /\ response'.of.user.email = response'.of.header.words[1][2].text.value.email
    ]_vars

\* A join with a token whose payload has no email was answered 401 while
\* the store held an event.
C8_Witness ==
  /\ response.route = JoinRoute
  /\ response.status = 401
  /\ response.of.header = Bearer(<<Token(Claims(Absent, "Ann", "ann.png"))>>)
  /\ Len(events) > 0

\* C9: when the insert of the creator's join record fails in POST /events,
\* the response is 400, the event inserted by the request stays in events,
\* no join record is added and nothing is deleted; and no later turn removes
\* an event.
C9_NoRollback ==
  [][ /\ Len(events') >= Len(events)
      /\ \A s \in Slots :
           (req[s].pc = "create_join" /\ Moves(s) /\ response'.status # 201)
             => /\ response'.slot = s
                /\ response'.route = "POST /events"
                /\ response'.status = 400
                /\ events' = events
                /\ joins' = joins
                /\ req[s].insertedEvent._id \in 1 .. Len(events') ]_vars

\* The join insert of a POST /events failed: the answer was 400, the event
\* is stored and its owner has no join record.
C9_Witness ==
  /\ response.route = "POST /events"
  /\ response.status = 400
  /\ response.of.pc = "create_join"
  /\ response.of.insertedEvent._id \in 1 .. Len(events)
  /\ JoinCount(response.of.insertedEvent._id, response.of.user.email) = 0

\* C10: the write of a PUT /events/:id by the owner leaves every mutable
\* field that the body does not supply (absent or falsy) at the value stored
\* immediately before the write, also when another PUT ran since the
\* request read the event.
C10_UnsuppliedKept ==
  [][ \A s \in Slots :
        (req[s].pc = "update_findOneAndUpdate" /\ Moves(s))
          => \A f \in MutableFields :
               req[s].input[f] \in {Absent, Null, ""}
                 => events'[req[s].id][f] = events[req[s].id][f] ]_vars
====
